---- MODULE Spec2Model ----
(***************************************************************************)
(* Model of src/index.ts: the run() workflow that provisions an Airtop     *)
(* session, checks the Glassdoor login state with a page query, optionally *)
(* waits for the operator to log in, extracts job listings with a second   *)
(* page query, and cleans up.                                              *)
(*                                                                         *)
(* Texts that the program parses (model responses) are sequences of JSON   *)
(* tokens; JSON.parse and JSON.stringify are modelled as a parser and a    *)
(* serialiser over these tokens.  What the operator types is a sequence of *)
(* characters.                                                             *)
(***************************************************************************)
EXTENDS Integers, Sequences, FiniteSets, TLC

\* ------------------------------------------------------------------------
\* Bounds
\* ------------------------------------------------------------------------
\* Longest line the operator types at the profile prompt.
MaxInputLen == 3

\* ------------------------------------------------------------------------
\* Program constants
\* ------------------------------------------------------------------------
LOGIN_URL == "https://www.glassdoor.com/member/profile"
TARGET_URL == "https://www.glassdoor.com/Job/san-francisco-ca-software-engineer-jobs"
IS_LOGGED_IN_PROMPT == "IS_LOGGED_IN_PROMPT"
EXTRACT_DATA_PROMPT == "EXTRACT_DATA_PROMPT"

\* The JavaScript value undefined (a missing variable, property or argument).
Undefined == "<undefined>"

\* ------------------------------------------------------------------------
\* JSON values and tokens
\* ------------------------------------------------------------------------
\* A JavaScript value as JSON.parse builds it.  t is the type; b, n, s hold
\* a boolean, number or string; c holds the elements of an array or the
\* members [k, v] of an object, in insertion order.
JVal(t, b, n, s, c) == [t |-> t, b |-> b, n |-> n, s |-> s, c |-> c]
JUndef == JVal("undefined", FALSE, 0, "", <<>>)
JNull == JVal("null", FALSE, 0, "", <<>>)
JBool(b) == JVal("bool", b, 0, "", <<>>)
JNum(n) == JVal("num", FALSE, n, "", <<>>)
JStr(s) == JVal("str", FALSE, 0, s, <<>>)
JArr(elems) == JVal("arr", FALSE, 0, "", elems)
JObj(members) == JVal("obj", FALSE, 0, "", members)
Member(k, v) == [k |-> k, v |-> v]

\* A token of a JSON text: punctuation, a literal name, a string or a number.
Tok(k, s, n) == [k |-> k, s |-> s, n |-> n]
P(s) == Tok("punct", s, 0)
Lit(s) == Tok("lit", s, 0)
TStr(s) == Tok("str", s, 0)
TNum(n) == Tok("num", "", n)

\* obj[k] = v as JavaScript assigns a property: an existing key keeps its
\* position and takes the new value, a new key is appended.
ObjSet(members, k, v) ==
    IF \E i \in 1..Len(members) : members[i].k = k
    THEN [i \in 1..Len(members) |->
            IF members[i].k = k THEN Member(k, v) ELSE members[i]]
    ELSE Append(members, Member(k, v))

ParseFail == [ok |-> FALSE, v |-> JUndef, next |-> 0]
ParseOk(v, next) == [ok |-> TRUE, v |-> v, next |-> next]
IsPunct(toks, i, s) == i <= Len(toks) /\ toks[i].k = "punct" /\ toks[i].s = s

RECURSIVE ParseValue(_, _)
RECURSIVE ParseMembers(_, _, _)
RECURSIVE ParseElements(_, _, _)

\* The members of an object after "{" or ",": "key" : value, then "," or "}".
ParseMembers(toks, i, acc) ==
    IF i + 1 <= Len(toks) /\ toks[i].k = "str" /\ IsPunct(toks, i + 1, ":")
    THEN LET r == ParseValue(toks, i + 2) IN
         IF ~r.ok THEN ParseFail
         ELSE IF IsPunct(toks, r.next, ",")
              THEN ParseMembers(toks, r.next + 1, ObjSet(acc, toks[i].s, r.v))
         ELSE IF IsPunct(toks, r.next, "}")
              THEN ParseOk(JObj(ObjSet(acc, toks[i].s, r.v)), r.next + 1)
         ELSE ParseFail
    ELSE ParseFail

\* The elements of an array after "[" or ",": value, then "," or "]".
ParseElements(toks, i, acc) ==
    LET r == ParseValue(toks, i) IN
    IF ~r.ok THEN ParseFail
    ELSE IF IsPunct(toks, r.next, ",")
         THEN ParseElements(toks, r.next + 1, Append(acc, r.v))
    ELSE IF IsPunct(toks, r.next, "]")
         THEN ParseOk(JArr(Append(acc, r.v)), r.next + 1)
    ELSE ParseFail

\* One JSON value starting at token i.
ParseValue(toks, i) ==
    IF i > Len(toks) THEN ParseFail
    ELSE LET tok == toks[i] IN
         CASE tok.k = "lit" /\ tok.s = "true" -> ParseOk(JBool(TRUE), i + 1)
           [] tok.k = "lit" /\ tok.s = "false" -> ParseOk(JBool(FALSE), i + 1)
           [] tok.k = "lit" /\ tok.s = "null" -> ParseOk(JNull, i + 1)
           [] tok.k = "str" -> ParseOk(JStr(tok.s), i + 1)
           [] tok.k = "num" -> ParseOk(JNum(tok.n), i + 1)
           [] tok.k = "punct" /\ tok.s = "{" ->
                IF IsPunct(toks, i + 1, "}") THEN ParseOk(JObj(<<>>), i + 2)
                ELSE ParseMembers(toks, i + 1, <<>>)
           [] tok.k = "punct" /\ tok.s = "[" ->
                IF IsPunct(toks, i + 1, "]") THEN ParseOk(JArr(<<>>), i + 2)
                ELSE ParseElements(toks, i + 1, <<>>)
           [] OTHER -> ParseFail

\* JSON.parse(text): the value, or a SyntaxError when the text is not exactly
\* one JSON value.
JSONParse(toks) ==
    LET r == ParseValue(toks, 1) IN
    IF r.ok /\ r.next = Len(toks) + 1
    THEN [ok |-> TRUE, v |-> r.v]
    ELSE [ok |-> FALSE, v |-> JUndef]

RECURSIVE JSONStringify(_)
RECURSIVE StringifyMembers(_, _)
RECURSIVE StringifyElements(_, _)

StringifyMembers(members, i) ==
    IF i > Len(members) THEN <<>>
    ELSE (IF i > 1 THEN <<P(",")>> ELSE <<>>)
         \o <<TStr(members[i].k), P(":")>> \o JSONStringify(members[i].v)
         \o StringifyMembers(members, i + 1)

StringifyElements(elems, i) ==
    IF i > Len(elems) THEN <<>>
    ELSE (IF i > 1 THEN <<P(",")>> ELSE <<>>)
         \o JSONStringify(elems[i]) \o StringifyElements(elems, i + 1)

\* JSONStringify with the elements of every array left out.
JSONStringify_EmptyArrays(v) ==
    CASE v.t = "null" -> <<Lit("null")>>
      [] v.t = "bool" -> <<Lit(IF v.b THEN "true" ELSE "false")>>
      [] v.t = "num" -> <<TNum(v.n)>>
      [] v.t = "str" -> <<TStr(v.s)>>
      [] v.t = "arr" -> <<P("["), P("]")>>
      [] v.t = "obj" -> <<P("{")>> \o StringifyMembers(v.c, 1) \o <<P("}")>>

\* JSON.stringify(value, null, 2) of a value that JSON.parse returned; the
\* indentation is white space between tokens.
JSONStringify(v) ==
    CASE v.t = "null" -> <<Lit("null")>>
      [] v.t = "bool" -> <<Lit(IF v.b THEN "true" ELSE "false")>>
      [] v.t = "num" -> <<TNum(v.n)>>
      [] v.t = "str" -> <<TStr(v.s)>>
      [] v.t = "arr" -> <<P("[")>> \o StringifyElements(v.c, 1) \o <<P("]")>>
      [] v.t = "obj" -> <<P("{")>> \o StringifyMembers(v.c, 1) \o <<P("}")>>

\* value.name as JavaScript evaluates it on a value other than null and
\* undefined: the member of an object, undefined on anything else (the
\* names used here are no property of a string, number, boolean or array).
GetProp(v, name) ==
    IF v.t = "obj" /\ \E i \in 1..Len(v.c) : v.c[i].k = name
    THEN v.c[CHOOSE i \in 1..Len(v.c) : v.c[i].k = name].v
    ELSE JUndef

\* ToBoolean(v): what `if (v)` and `!v` test.
Truthy(v) ==
    CASE v.t = "undefined" -> FALSE
      [] v.t = "null" -> FALSE
      [] v.t = "bool" -> v.b
      [] v.t = "num" -> v.n # 0
      [] v.t = "str" -> v.s # ""
      [] OTHER -> TRUE

RECURSIVE JSToString(_)
RECURSIVE JoinElements(_, _)

\* Array.prototype.join(","): null and undefined elements give "".
JoinElements(elems, i) ==
    IF i > Len(elems) THEN ""
    ELSE (IF i > 1 THEN "," ELSE "")
         \o (IF elems[i].t \in {"null", "undefined"} THEN ""
             ELSE JSToString(elems[i]))
         \o JoinElements(elems, i + 1)

\* String(v), the message new Error(v) gets.
JSToString(v) ==
    CASE v.t = "str" -> v.s
      [] v.t = "bool" -> IF v.b THEN "true" ELSE "false"
      [] v.t = "num" -> ToString(v.n)
      [] v.t = "null" -> "null"
      [] v.t = "obj" -> "[object Object]"
      [] v.t = "arr" -> JoinElements(v.c, 1)
      [] OTHER -> ""

\* ------------------------------------------------------------------------
\* Operator input
\* ------------------------------------------------------------------------
\* Characters of a chunk read from standard input.
Chars == {"p", " ", "\n"}
IsWhiteSpace(ch) == ch \in {" ", "\n"}

\* String.prototype.trim() on a sequence of characters.
RECURSIVE TrimStart(_)
TrimStart(cs) ==
    IF cs # <<>> /\ IsWhiteSpace(Head(cs)) THEN TrimStart(Tail(cs)) ELSE cs

RECURSIVE TrimEnd(_)
TrimEnd(cs) ==
    IF cs # <<>> /\ IsWhiteSpace(cs[Len(cs)])
    THEN TrimEnd(SubSeq(cs, 1, Len(cs) - 1))
    ELSE cs

Trim(cs) == TrimEnd(TrimStart(cs))

\* The characters as one string value.
RECURSIVE CharsToString(_)
CharsToString(cs) ==
    IF cs = <<>> THEN "" ELSE Head(cs) \o CharsToString(Tail(cs))

\* What a 'data' event of standard input can carry: a non-empty chunk.
StdinChunks == UNION {[1..n -> Chars] : n \in 1..MaxInputLen}

\* Lines 82-83: trimmedInput || undefined.
ResolveProfileId(input) ==
    LET trimmedInput == CharsToString(Trim(input)) IN
    IF trimmedInput # "" THEN trimmedInput ELSE Undefined

\* ------------------------------------------------------------------------
\* Remote side: what the calls can return
\* ------------------------------------------------------------------------
\* Outcomes of a call on the Airtop client: it returns, it throws an
\* AirtopError (the API answered with an error status), or it throws another
\* error (network failure, timeout).
ClientOutcomes == {"ok", "AirtopError", "Error"}
\* Outcomes of a call on the puppeteer browser or page.
DriverOutcomes == {"ok", "Error"}

\* The control endpoint in a session-creation response: present, missing, or
\* an empty string.
CdpWsUrls == {"wss://cdp", Undefined, ""}

\* The text between "{" and "}" for a sequence of members, each a sequence
\* of tokens  "key" : value.
RECURSIVE MembersText(_)
MembersText(ms) ==
    IF ms = <<>> THEN <<>>
    ELSE Head(ms) \o (IF Len(ms) > 1 THEN <<P(",")>> ELSE <<>>)
         \o MembersText(Tail(ms))
ObjectText(ms) == <<P("{")>> \o MembersText(ms) \o <<P("}")>>
MemberText(k, valueToks) == <<TStr(k), P(":")>> \o valueToks

\* Values the model may put in isLoggedIn and in error; <<>> is a field the
\* response does not have.
IsLoggedInTexts ==
    { <<>>, <<Lit("true")>>, <<Lit("false")>>, <<Lit("null")>>,
      <<TStr("false")>>, <<TNum(0)>>, <<TNum(1)>> }
LoginErrorTexts == { <<>>, <<TStr("")>>, <<TStr("boom")>>, <<Lit("null")>> }

OptMember(k, valueToks) ==
    IF valueToks = <<>> THEN <<>> ELSE <<MemberText(k, valueToks)>>

\* Texts the page query of the login check can answer with: objects with
\* any of the two fields in either order, and texts that are no object or
\* no JSON at all.
LoginResponses ==
    { ObjectText(OptMember("isLoggedIn", il) \o OptMember("error", er)) :
        il \in IsLoggedInTexts, er \in LoginErrorTexts }
    \cup { ObjectText(OptMember("error", er) \o OptMember("isLoggedIn", il)) :
        il \in IsLoggedInTexts, er \in LoginErrorTexts }
    \cup { <<Lit("null")>>, <<Lit("true")>>, <<>>,
           <<P("{"), TStr("isLoggedIn"), P(":"), Lit("true")>>,
           <<TStr("error"), P(":"), TStr("boom")>>,
           <<P("{"), TStr("error"), P(":"), TStr("boom"), P(","), P("}")>> }

SalaryText(min, max) ==
    ObjectText(<<MemberText("min", <<TNum(min)>>),
                 MemberText("max", <<TNum(max)>>)>>)
EntryText(salaryToks) ==
    ObjectText(<<MemberText("companyName", <<TStr("Acme AI")>>),
                 MemberText("jobTitle", <<TStr("Software Engineer")>>),
                 MemberText("location", <<TStr("San Francisco")>>)>>
               \o OptMember("salary", salaryToks))

CompaniesTexts ==
    { <<>>, <<P("["), P("]")>>,
      <<P("[")>> \o EntryText(SalaryText(120, 150)) \o <<P("]")>>,
      <<P("[")>> \o EntryText(SalaryText(150, 120)) \o <<P("]")>>,
      <<P("[")>> \o EntryText(<<>>) \o <<P("]")>> }
ExtractErrorTexts == { <<>>, <<TStr("")>>, <<TStr("fail")>> }

\* Texts the extraction query can answer with.
ExtractResponses ==
    { ObjectText(OptMember("companies", co) \o OptMember("error", er)) :
        co \in CompaniesTexts, er \in ExtractErrorTexts }
    \cup { <<Lit("null")>>, <<>>,
           <<P("{"), TStr("companies"), P(":"), P("[")>>,
           ObjectText(<<MemberText("error", <<TStr("fail")>>),
                        MemberText("error", <<TStr("")>>)>>) }

\* The value has a member of that name.
HasProp(v, name) == v.t = "obj" /\ \E i \in 1..Len(v.c) : v.c[i].k = name

\* Lines 48-61: the schema of salary, an object whose required min and max
\* are numbers of at least 0.
MatchesSalarySchema(v) ==
    /\ v.t = "obj"
    /\ HasProp(v, "min") /\ HasProp(v, "max")
    /\ GetProp(v, "min").t = "num" /\ GetProp(v, "min").n >= 0
    /\ GetProp(v, "max").t = "num" /\ GetProp(v, "max").n >= 0

\* Lines 37-64: the schema of one entry of companies, an object with the
\* required companyName, jobTitle, location and salary.
MatchesEntrySchema(v) ==
    /\ v.t = "obj"
    /\ \A name \in {"companyName", "jobTitle", "location"} :
         HasProp(v, name) /\ GetProp(v, name).t = "str"
    /\ HasProp(v, "salary") /\ MatchesSalarySchema(GetProp(v, "salary"))

\* Lines 30-71: the schema EXTRACT_DATA_PROMPT declares for the answer, an
\* object whose companies, when present, is an array of entries and whose
\* error, when present, is a string.
MatchesExtractSchema(v) ==
    /\ v.t = "obj"
    /\ HasProp(v, "companies") =>
         /\ GetProp(v, "companies").t = "arr"
         /\ \A i \in 1..Len(GetProp(v, "companies").c) :
              MatchesEntrySchema(GetProp(v, "companies").c[i])
    /\ HasProp(v, "error") => GetProp(v, "error").t = "str"

\* ------------------------------------------------------------------------
\* State
\* ------------------------------------------------------------------------
VARIABLES
    pc,                        \* where run() stands
    AIRTOP_API_KEY,            \* process.env.AIRTOP_API_KEY, or Undefined
    profileId,                 \* what the profile prompt resolved to
    createRequest,             \* the configuration sent to sessions.create
    session,                   \* createSessionResponse.data
    isLoggedInPromptResponse,  \* the answer of the login-check query
    isUserLoggedIn,            \* parsedResponse.isLoggedIn
    handoff,                   \* the wait for the operator's Enter
    promptContentResponse,     \* the answer of the extraction query
    formattedJson,             \* the result printed as "Response:"
    err,                       \* the error run() threw
    exitCode,                  \* the status process.exit was called with
    calls,                     \* the calls issued to the remote services
    stdout,                    \* console.log lines, by what they report
    stderr                     \* console.error lines

vars == <<pc, AIRTOP_API_KEY, profileId, createRequest, session,
          isLoggedInPromptResponse, isUserLoggedIn, handoff,
          promptContentResponse, formattedJson, err, exitCode, calls,
          stdout, stderr>>

NoRequest == [sent |-> FALSE, timeoutMinutes |-> 0, persistProfile |-> FALSE,
              baseProfileId |-> Undefined]
NoSession == [created |-> FALSE, id |-> Undefined, cdpWsUrl |-> Undefined,
              profileId |-> Undefined]
NoResponse == [received |-> FALSE, modelResponse |-> <<>>]
NoResult == [printed |-> FALSE, text |-> <<>>]
NoError == [thrown |-> FALSE, name |-> "", message |-> "", statusCode |-> 0]
NotExited == -1

Response(text) == [received |-> TRUE, modelResponse |-> text]
Thrown(name, message, statusCode) ==
    [thrown |-> TRUE, name |-> name, message |-> message,
     statusCode |-> statusCode]
Call(op, arg) == [op |-> op, arg |-> arg]

\* The error a failed call throws.
CallError(outcome, op) ==
    IF outcome = "AirtopError"
    THEN Thrown("AirtopError", "Status code: 500", 500)
    ELSE Thrown("Error", op, 0)

\* SessionConfiguration with persistence requested only for a supplied
\* profile.
SessionConfiguration_PersistSupplied(profile) ==
    [sent |-> TRUE, timeoutMinutes |-> 10,
     persistProfile |-> (profile # Undefined), baseProfileId |-> profile]

\* Lines 88-92: the configuration of the session to create.
SessionConfiguration(profile) ==
    [sent |-> TRUE, timeoutMinutes |-> 10, persistProfile |-> TRUE,
     baseProfileId |-> profile]

\* Line 98: !createSessionResponse.data.cdpWsUrl
MissingCdpUrl(cdpWsUrl) == cdpWsUrl = Undefined \/ cdpWsUrl = ""

\* CheckLoginResponse with the error field tested only when isLoggedIn is
\* not truthy.
CheckLoginResponse_ErrorOnlyWhenLoggedOut(text) ==
    LET parsed == JSONParse(text) IN
    IF ~parsed.ok
    THEN [err |-> Thrown("SyntaxError", "Unexpected token in JSON", 0),
          isLoggedIn |-> JUndef]
    ELSE IF parsed.v.t = "null"
    THEN [err |-> Thrown("TypeError", "Cannot read properties of null", 0),
          isLoggedIn |-> JUndef]
    ELSE IF /\ ~Truthy(GetProp(parsed.v, "isLoggedIn"))
            /\ Truthy(GetProp(parsed.v, "error"))
    THEN [err |-> Thrown("Error", JSToString(GetProp(parsed.v, "error")), 0),
          isLoggedIn |-> JUndef]
    ELSE [err |-> NoError, isLoggedIn |-> GetProp(parsed.v, "isLoggedIn")]

\* Lines 128-132: parse the answer of the login check; an error field that
\* is truthy is thrown, otherwise isLoggedIn is read.
CheckLoginResponse(text) ==
    LET parsed == JSONParse(text) IN
    IF ~parsed.ok
    THEN [err |-> Thrown("SyntaxError", "Unexpected token in JSON", 0),
          isLoggedIn |-> JUndef]
    ELSE IF parsed.v.t = "null"
    THEN [err |-> Thrown("TypeError", "Cannot read properties of null", 0),
          isLoggedIn |-> JUndef]
    ELSE IF Truthy(GetProp(parsed.v, "error"))
    THEN [err |-> Thrown("Error", JSToString(GetProp(parsed.v, "error")), 0),
          isLoggedIn |-> JUndef]
    ELSE [err |-> NoError, isLoggedIn |-> GetProp(parsed.v, "isLoggedIn")]

\* NeedsLogin with the branch taken for the boolean false only.
NeedsLogin_OnlyFalse(loggedIn) == loggedIn = JBool(FALSE)

\* NeedsLogin with the branch never taken.
NeedsLogin_Never(loggedIn) == FALSE

\* NeedsLogin with the branch always taken.
NeedsLogin_Always(loggedIn) == TRUE

\* Line 135: !isUserLoggedIn, the operator has to log in.
NeedsLogin(loggedIn) == ~Truthy(loggedIn)

\* Line 151: JSON.stringify(JSON.parse(modelResponse), null, 2).
FormatResponse(text) ==
    LET parsed == JSONParse(text) IN
    IF ~parsed.ok
    THEN [err |-> Thrown("SyntaxError", "Unexpected token in JSON", 0),
          text |-> <<>>]
    ELSE [err |-> NoError, text |-> JSONStringify(parsed.v)]

\* ------------------------------------------------------------------------
\* Init: the module is loaded, run() has not started
\* ------------------------------------------------------------------------
Init ==
    /\ pc = "start"
    /\ AIRTOP_API_KEY \in {Undefined, "airtop-key"}
    /\ profileId = Undefined
    /\ createRequest = NoRequest
    /\ session = NoSession
    /\ isLoggedInPromptResponse = NoResponse
    /\ isUserLoggedIn = JUndef
    /\ handoff = "none"
    /\ promptContentResponse = NoResponse
    /\ formattedJson = NoResult
    /\ err = NoError
    /\ exitCode = NotExited
    /\ calls = <<>>
    /\ stdout = <<>>
    /\ stderr = <<>>

\* throw inside the try block: control goes to the catch clause of line 159.
Throw(e) == /\ err' = e
            /\ pc' = "catch"

\* ------------------------------------------------------------------------
\* Actions: run() from one await to the next
\* ------------------------------------------------------------------------
\* Lines 76-80: build the client and prompt for a profile id.
NewClient ==
    /\ pc = "start"
    /\ pc' = "profilePrompt"
    /\ stdout' = Append(stdout, "Enter a profileId")
    /\ UNCHANGED <<AIRTOP_API_KEY, profileId, createRequest, session,
                   isLoggedInPromptResponse, isUserLoggedIn, handoff,
                   promptContentResponse, formattedJson, err, exitCode,
                   calls, stderr>>

\* Lines 81-85: the operator's input resolves the profile id.
ReadProfileId ==
    /\ pc = "profilePrompt"
    /\ \E input \in StdinChunks :
         /\ profileId' = ResolveProfileId(input)
         /\ stdout' = Append(stdout,
                IF CharsToString(Trim(input)) # "" THEN "Using profileId"
                ELSE "No profileId provided")
    /\ pc' = "createSession"
    /\ UNCHANGED <<AIRTOP_API_KEY, createRequest, session,
                   isLoggedInPromptResponse, isUserLoggedIn, handoff,
                   promptContentResponse, formattedJson, err, exitCode,
                   calls, stderr>>

\* Lines 87-100: create the session and require its control endpoint.
CreateSession ==
    /\ pc = "createSession"
    /\ createRequest' = SessionConfiguration(profileId)
    /\ calls' = Append(calls, Call("sessions.create", ""))
    /\ \E outcome \in ClientOutcomes, cdpWsUrl \in CdpWsUrls :
         IF outcome # "ok"
         THEN /\ Throw(CallError(outcome, "sessions.create"))
              /\ UNCHANGED <<session, stdout>>
         ELSE /\ session' = [created |-> TRUE, id |-> "session-1",
                             cdpWsUrl |-> cdpWsUrl,
                             profileId |-> "profile-1"]
              /\ stdout' = Append(stdout, "Created airtop session")
              /\ IF MissingCdpUrl(cdpWsUrl)
                 THEN Throw(Thrown("Error", "Unable to get cdp url", 0))
                 ELSE pc' = "connect" /\ UNCHANGED err
    /\ UNCHANGED <<AIRTOP_API_KEY, profileId, isLoggedInPromptResponse,
                   isUserLoggedIn, handoff, promptContentResponse,
                   formattedJson, exitCode, stderr>>

\* Lines 103-110: connect puppeteer to the control endpoint.
ConnectBrowser ==
    /\ pc = "connect"
    /\ calls' = Append(calls, Call("puppeteer.connect", session.cdpWsUrl))
    /\ \E outcome \in DriverOutcomes :
         IF outcome # "ok"
         THEN Throw(CallError(outcome, "puppeteer.connect"))
              /\ UNCHANGED stdout
         ELSE /\ pc' = "newPage"
              /\ stdout' = Append(stdout, "Connected to browser")
              /\ UNCHANGED err
    /\ UNCHANGED <<AIRTOP_API_KEY, profileId, createRequest, session,
                   isLoggedInPromptResponse, isUserLoggedIn, handoff,
                   promptContentResponse, formattedJson, exitCode, stderr>>

\* Lines 113-115: open a page.
NewPage ==
    /\ pc = "newPage"
    /\ calls' = Append(calls, Call("browser.newPage", ""))
    /\ \E outcome \in DriverOutcomes :
         IF outcome # "ok"
         THEN Throw(CallError(outcome, "browser.newPage"))
              /\ UNCHANGED stdout
         ELSE /\ pc' = "gotoLogin"
              /\ stdout' = Append(stdout, "Navigating to Glassdoor profile")
              /\ UNCHANGED err
    /\ UNCHANGED <<AIRTOP_API_KEY, profileId, createRequest, session,
                   isLoggedInPromptResponse, isUserLoggedIn, handoff,
                   promptContentResponse, formattedJson, exitCode, stderr>>

\* Line 116: navigate to the profile page.
GotoLogin ==
    /\ pc = "gotoLogin"
    /\ calls' = Append(calls, Call("page.goto", LOGIN_URL))
    /\ \E outcome \in DriverOutcomes :
         IF outcome # "ok"
         THEN Throw(CallError(outcome, "page.goto"))
         ELSE pc' = "windowInfo" /\ UNCHANGED err
    /\ UNCHANGED <<AIRTOP_API_KEY, profileId, createRequest, session,
                   isLoggedInPromptResponse, isUserLoggedIn, handoff,
                   promptContentResponse, formattedJson, exitCode, stdout,
                   stderr>>

\* Lines 117-124: look up the window of the page.
GetWindowInfo ==
    /\ pc = "windowInfo"
    /\ calls' = Append(calls, Call("windows.getWindowInfoForPuppeteerPage",
                                   session.id))
    /\ \E outcome \in ClientOutcomes :
         IF outcome # "ok"
         THEN Throw(CallError(outcome, "windows.getWindowInfoForPuppeteerPage"))
              /\ UNCHANGED stdout
         ELSE /\ pc' = "loginCheck"
              /\ stdout' = Append(stdout, "Determining whether the user is logged in")
              /\ UNCHANGED err
    /\ UNCHANGED <<AIRTOP_API_KEY, profileId, createRequest, session,
                   isLoggedInPromptResponse, isUserLoggedIn, handoff,
                   promptContentResponse, formattedJson, exitCode, stderr>>

\* Lines 125-141: ask whether the user is logged in, parse the answer, fail
\* on a reported error, and branch on isLoggedIn.
PromptIsLoggedIn ==
    /\ pc = "loginCheck"
    /\ calls' = Append(calls, Call("windows.promptContent", IS_LOGGED_IN_PROMPT))
    /\ \E outcome \in ClientOutcomes, text \in LoginResponses :
         IF outcome # "ok"
         THEN /\ Throw(CallError(outcome, "windows.promptContent"))
              /\ UNCHANGED <<isLoggedInPromptResponse, isUserLoggedIn,
                             handoff, stdout>>
         ELSE LET checked == CheckLoginResponse(text) IN
              /\ isLoggedInPromptResponse' = Response(text)
              /\ IF checked.err.thrown
                 THEN /\ Throw(checked.err)
                      /\ UNCHANGED <<isUserLoggedIn, handoff, stdout>>
                 ELSE /\ isUserLoggedIn' = checked.isLoggedIn
                      /\ UNCHANGED err
                      /\ IF NeedsLogin(checked.isLoggedIn)
                         THEN /\ stdout' = Append(stdout, "Log into your Glassdoor account")
                              /\ handoff' = "waiting"
                              /\ pc' = "awaitLogin"
                         ELSE /\ stdout' = Append(stdout, "User is already logged in")
                              /\ UNCHANGED handoff
                              /\ pc' = "gotoTarget"
    /\ UNCHANGED <<AIRTOP_API_KEY, profileId, createRequest, session,
                   promptContentResponse, formattedJson, exitCode, stderr>>

\* AwaitLogin with the login check queried again when the wait ends.
AwaitLogin_Recheck ==
    /\ pc = "awaitLogin"
    /\ handoff = "waiting"
    /\ \E input \in StdinChunks : TRUE
    /\ handoff' = "released"
    /\ calls' = Append(calls, Call("windows.promptContent", IS_LOGGED_IN_PROMPT))
    /\ stdout' = Append(stdout, "To avoid logging in again, use the following profileId")
    /\ pc' = "gotoTarget"
    /\ UNCHANGED <<AIRTOP_API_KEY, profileId, createRequest, session,
                   isLoggedInPromptResponse, isUserLoggedIn,
                   promptContentResponse, formattedJson, err, exitCode,
                   stderr>>

\* AwaitLogin with a promise that the operator's input never resolves.
AwaitLogin_NeverResolves ==
    /\ pc = "awaitLogin"
    /\ FALSE
    /\ UNCHANGED vars

\* Lines 137-138: the operator presses Enter; the wait ends.
AwaitLogin ==
    /\ pc = "awaitLogin"
    /\ handoff = "waiting"
    /\ \E input \in StdinChunks : TRUE
    /\ handoff' = "released"
    /\ stdout' = Append(stdout, "To avoid logging in again, use the following profileId")
    /\ pc' = "gotoTarget"
    /\ UNCHANGED <<AIRTOP_API_KEY, profileId, createRequest, session,
                   isLoggedInPromptResponse, isUserLoggedIn,
                   promptContentResponse, formattedJson, err, exitCode,
                   calls, stderr>>

\* GotoTarget with the navigation left out.
GotoTarget_NoNavigation ==
    /\ pc = "gotoTarget"
    /\ pc' = "extract"
    /\ stdout' = Append(stdout, "Prompting the AI agent")
    /\ UNCHANGED <<AIRTOP_API_KEY, profileId, createRequest, session,
                   isLoggedInPromptResponse, isUserLoggedIn, handoff,
                   promptContentResponse, formattedJson, err, exitCode,
                   calls, stderr>>

\* Lines 144-146: navigate to the listing page.
GotoTarget ==
    /\ pc = "gotoTarget"
    /\ calls' = Append(calls, Call("page.goto", TARGET_URL))
    /\ \E outcome \in DriverOutcomes :
         IF outcome # "ok"
         THEN Throw(CallError(outcome, "page.goto"))
              /\ UNCHANGED stdout
         ELSE /\ pc' = "extract"
              /\ stdout' = Append(stdout, "Prompting the AI agent")
              /\ UNCHANGED err
    /\ UNCHANGED <<AIRTOP_API_KEY, profileId, createRequest, session,
                   isLoggedInPromptResponse, isUserLoggedIn, handoff,
                   promptContentResponse, formattedJson, exitCode, stderr>>

\* PromptExtract with the session terminated without closing the browser.
PromptExtract_SkipClose ==
    /\ pc = "extract"
    /\ calls' = Append(calls, Call("windows.promptContent", EXTRACT_DATA_PROMPT))
    /\ \E outcome \in ClientOutcomes, text \in ExtractResponses :
         IF outcome # "ok"
         THEN /\ Throw(CallError(outcome, "windows.promptContent"))
              /\ UNCHANGED <<promptContentResponse, formattedJson, stdout>>
         ELSE LET formatted == FormatResponse(text) IN
              /\ promptContentResponse' = Response(text)
              /\ IF formatted.err.thrown
                 THEN /\ Throw(formatted.err)
                      /\ UNCHANGED <<formattedJson, stdout>>
                 ELSE /\ formattedJson' = [printed |-> TRUE,
                                           text |-> formatted.text]
                      /\ stdout' = Append(stdout, "Response")
                      /\ pc' = "terminate"
                      /\ UNCHANGED err
    /\ UNCHANGED <<AIRTOP_API_KEY, profileId, createRequest, session,
                   isLoggedInPromptResponse, isUserLoggedIn, handoff,
                   exitCode, stderr>>

\* Lines 147-152: ask for the job roles, re-format the answer and print it.
PromptExtract ==
    /\ pc = "extract"
    /\ calls' = Append(calls, Call("windows.promptContent", EXTRACT_DATA_PROMPT))
    /\ \E outcome \in ClientOutcomes, text \in ExtractResponses :
         IF outcome # "ok"
         THEN /\ Throw(CallError(outcome, "windows.promptContent"))
              /\ UNCHANGED <<promptContentResponse, formattedJson, stdout>>
         ELSE LET formatted == FormatResponse(text) IN
              /\ promptContentResponse' = Response(text)
              /\ IF formatted.err.thrown
                 THEN /\ Throw(formatted.err)
                      /\ UNCHANGED <<formattedJson, stdout>>
                 ELSE /\ formattedJson' = [printed |-> TRUE,
                                           text |-> formatted.text]
                      /\ stdout' = Append(stdout, "Response")
                      /\ pc' = "closeBrowser"
                      /\ UNCHANGED err
    /\ UNCHANGED <<AIRTOP_API_KEY, profileId, createRequest, session,
                   isLoggedInPromptResponse, isUserLoggedIn, handoff,
                   exitCode, stderr>>

\* Line 155: close the browser connection.
CloseBrowser ==
    /\ pc = "closeBrowser"
    /\ calls' = Append(calls, Call("browser.close", ""))
    /\ \E outcome \in DriverOutcomes :
         IF outcome # "ok"
         THEN Throw(CallError(outcome, "browser.close"))
         ELSE pc' = "terminate" /\ UNCHANGED err
    /\ UNCHANGED <<AIRTOP_API_KEY, profileId, createRequest, session,
                   isLoggedInPromptResponse, isUserLoggedIn, handoff,
                   promptContentResponse, formattedJson, exitCode, stdout,
                   stderr>>

\* TerminateSession with the browser closed after the session is terminated.
TerminateSession_CloseAfter ==
    /\ pc = "terminate"
    /\ \E outcome \in ClientOutcomes :
         IF outcome # "ok"
         THEN /\ calls' = Append(calls, Call("sessions.terminate", session.id))
              /\ Throw(CallError(outcome, "sessions.terminate"))
              /\ UNCHANGED <<stdout, exitCode>>
         ELSE /\ calls' = calls \o <<Call("sessions.terminate", session.id),
                                     Call("browser.close", "")>>
              /\ stdout' = Append(stdout, "Session terminated")
              /\ exitCode' = 0
              /\ pc' = "exited"
              /\ UNCHANGED err
    /\ UNCHANGED <<AIRTOP_API_KEY, profileId, createRequest, session,
                   isLoggedInPromptResponse, isUserLoggedIn, handoff,
                   promptContentResponse, formattedJson, stderr>>

\* Lines 156-158: terminate the session and exit with status 0.
TerminateSession ==
    /\ pc = "terminate"
    /\ calls' = Append(calls, Call("sessions.terminate", session.id))
    /\ \E outcome \in ClientOutcomes :
         IF outcome # "ok"
         THEN /\ Throw(CallError(outcome, "sessions.terminate"))
              /\ UNCHANGED <<stdout, exitCode>>
         ELSE /\ stdout' = Append(stdout, "Session terminated")
              /\ exitCode' = 0
              /\ pc' = "exited"
              /\ UNCHANGED err
    /\ UNCHANGED <<AIRTOP_API_KEY, profileId, createRequest, session,
                   isLoggedInPromptResponse, isUserLoggedIn, handoff,
                   promptContentResponse, formattedJson, stderr>>

\* Lines 160-166: what the catch clause prints for an error.
Diagnostics(e) ==
    IF e.name = "AirtopError"
    THEN <<ToString(e.statusCode), e.message, "body">>
    ELSE <<e.message>>

\* CatchError with the error thrown again without being printed.
CatchError_Silent ==
    /\ pc = "catch"
    /\ pc' = "rejected"
    /\ UNCHANGED <<AIRTOP_API_KEY, profileId, createRequest, session,
                   isLoggedInPromptResponse, isUserLoggedIn, handoff,
                   promptContentResponse, formattedJson, err, exitCode,
                   calls, stdout, stderr>>

\* Lines 159-168: print the error and throw it again.
CatchError ==
    /\ pc = "catch"
    /\ stderr' = stderr \o Diagnostics(err)
    /\ pc' = "rejected"
    /\ UNCHANGED <<AIRTOP_API_KEY, profileId, createRequest, session,
                   isLoggedInPromptResponse, isUserLoggedIn, handoff,
                   promptContentResponse, formattedJson, err, exitCode,
                   calls, stdout>>

\* ExitOnRejection with the rejection handler exiting with status 0.
ExitOnRejection_StatusZero ==
    /\ pc = "rejected"
    /\ exitCode' = 0
    /\ pc' = "exited"
    /\ UNCHANGED <<AIRTOP_API_KEY, profileId, createRequest, session,
                   isLoggedInPromptResponse, isUserLoggedIn, handoff,
                   promptContentResponse, formattedJson, err, calls, stdout,
                   stderr>>

\* Lines 171-173: the rejection of run() exits with status 1.
ExitOnRejection ==
    /\ pc = "rejected"
    /\ exitCode' = 1
    /\ pc' = "exited"
    /\ UNCHANGED <<AIRTOP_API_KEY, profileId, createRequest, session,
                   isLoggedInPromptResponse, isUserLoggedIn, handoff,
                   promptContentResponse, formattedJson, err, calls, stdout,
                   stderr>>

Next ==
    \/ NewClient
    \/ ReadProfileId
    \/ CreateSession
    \/ ConnectBrowser
    \/ NewPage
    \/ GotoLogin
    \/ GetWindowInfo
    \/ PromptIsLoggedIn
    \/ AwaitLogin
    \/ GotoTarget
    \/ PromptExtract
    \/ CloseBrowser
    \/ TerminateSession
    \/ CatchError
    \/ ExitOnRejection

Spec == Init /\ [][Next]_vars

\* The steps of run() that wait for nothing but a remote call or the event
\* loop.
RunSteps ==
    \/ NewClient
    \/ CreateSession
    \/ ConnectBrowser
    \/ NewPage
    \/ GotoLogin
    \/ GetWindowInfo
    \/ PromptIsLoggedIn
    \/ GotoTarget
    \/ PromptExtract
    \/ CloseBrowser
    \/ TerminateSession
    \/ CatchError
    \/ ExitOnRejection

\* The run under the assumptions that every remote call returns or fails,
\* that the operator answers the profile prompt, and that the operator
\* presses Enter when the run waits for the login.
FairSpec ==
    /\ Init
    /\ [][Next]_vars
    /\ WF_vars(RunSteps)
    /\ WF_vars(ReadProfileId)
    /\ WF_vars(AwaitLogin)

\* ------------------------------------------------------------------------
\* Properties
\* ------------------------------------------------------------------------
Issued(op, arg) == \E i \in 1..Len(calls) : calls[i] = Call(op, arg)
IssuedOp(op) == \E i \in 1..Len(calls) : calls[i].op = op
CountOp(op) == Cardinality({i \in 1..Len(calls) : calls[i].op = op})

\* The extraction stage has started: the navigation to the listing page or
\* the extraction query was issued.
ExtractionStarted ==
    \/ Issued("page.goto", TARGET_URL)
    \/ Issued("windows.promptContent", EXTRACT_DATA_PROMPT)

\* The field of the object a response text denotes; JUndef when the text is
\* no JSON object or has no such field.
FieldOf(response, name) ==
    LET parsed == JSONParse(response.modelResponse) IN
    IF response.received /\ parsed.ok /\ parsed.v.t = "obj"
    THEN GetProp(parsed.v, name)
    ELSE JUndef

\* The response carries an error field that is a non-empty string.
ReportsError(response) ==
    /\ FieldOf(response, "error").t = "str"
    /\ FieldOf(response, "error").s # ""

OnFailurePath == pc \in {"catch", "rejected", "exited"} /\ err.thrown

\* C1: in every run that created a session, the window is closed and the
\* session terminated exactly once by the time the process has exited, on
\* the success path and on every failure path.
C1_TeardownOncePerRun ==
    (pc = "exited" /\ session.created) =>
        /\ CountOp("browser.close") = 1
        /\ CountOp("sessions.terminate") = 1

\* C2: when the operator supplied a profile id, the session-creation request
\* carries it as baseProfileId and does not ask for profile persistence.
C2_SuppliedProfileNotPersisted ==
    (createRequest.sent /\ profileId # Undefined) =>
        /\ createRequest.baseProfileId = profileId
        /\ createRequest.persistProfile # TRUE

\* C3: a login-check response with a non-empty error field, whatever its
\* isLoggedIn and other fields, makes the run throw an error with that
\* message; the run never waits for the operator, never navigates to the
\* listing page, never issues the extraction query, and never exits 0.
C3_LoginErrorAborts ==
    ReportsError(isLoggedInPromptResponse) =>
        /\ OnFailurePath
        /\ err.message = FieldOf(isLoggedInPromptResponse, "error").s
        /\ handoff = "none"
        /\ ~ExtractionStarted
        /\ ~formattedJson.printed
        /\ exitCode # 0
        /\ pc = "exited" => exitCode = 1

\* A run that exited after a login check that reported an error together
\* with isLoggedIn = true.
C3_Witness ==
    /\ pc = "exited"
    /\ ReportsError(isLoggedInPromptResponse)
    /\ FieldOf(isLoggedInPromptResponse, "isLoggedIn") = JBool(TRUE)

\* C4: an extraction response with a non-empty error field, whatever else it
\* contains, makes the run throw an error with that message; the response is
\* not printed as the result and the run does not exit 0.
C4_ExtractErrorAborts ==
    ReportsError(promptContentResponse) =>
        /\ OnFailurePath
        /\ err.message = FieldOf(promptContentResponse, "error").s
        /\ ~formattedJson.printed
        /\ exitCode # 0

\* C5 as stated: the extraction stage starts only when the login check
\* returned isLoggedIn = true or the wait for the operator was entered and
\* released.
C5_ExtractOnlyIfTrueOrReleased ==
    ExtractionStarted =>
        \/ isUserLoggedIn = JBool(TRUE)
        \/ handoff = "released"

\* C5 as amended: the extraction stage starts only when the login check
\* read a truthy isLoggedIn or the wait for the operator was entered and
\* released; a login check that reads isLoggedIn = false enters the wait; and
\* no call is issued while the run waits.
C5_ExtractOnlyIfTruthyOrReleased ==
    /\ [](ExtractionStarted =>
            (Truthy(isUserLoggedIn) \/ handoff = "released"))
    /\ []((isUserLoggedIn = JBool(FALSE) /\ ~err.thrown /\ pc # "exited") =>
            (handoff \in {"waiting", "released"}))
    /\ [](handoff = "waiting" => (pc = "awaitLogin" /\ ~ExtractionStarted))
    /\ [][handoff = "waiting" => calls' = calls]_vars

\* The login check read isLoggedIn = false, the operator released the wait
\* and the extraction query was issued.
C5_Witness ==
    /\ isUserLoggedIn = JBool(FALSE)
    /\ handoff = "released"
    /\ Issued("windows.promptContent", EXTRACT_DATA_PROMPT)

\* The login check answered isLoggedIn = true and no error field.
LoggedInNoError ==
    /\ FieldOf(isLoggedInPromptResponse, "isLoggedIn") = JBool(TRUE)
    /\ FieldOf(isLoggedInPromptResponse, "error") = JUndef

\* C6: after a login-check response with isLoggedIn = true and no error
\* field the run never waits for the operator; the login check is followed
\* directly by the navigation to the listing page.
C6_LoggedInSkipsHandoff ==
    /\ [](LoggedInNoError => (handoff = "none" /\ pc # "awaitLogin"))
    /\ [][(pc = "loginCheck" /\ LoggedInNoError') => pc' = "gotoTarget"]_vars

\* The extraction query was issued after a login check that answered
\* isLoggedIn = true without an error field.
C6_Witness ==
    /\ LoggedInNoError
    /\ Issued("windows.promptContent", EXTRACT_DATA_PROMPT)

\* C7: without an API key no remote call is ever issued, and the process
\* exits with a non-zero status.
C7_NoKeyNoRemoteCall ==
    AIRTOP_API_KEY = Undefined =>
        /\ calls = <<>>
        /\ exitCode # 0

\* C8: when the created session has no control endpoint, the run throws,
\* terminates the session it was given, attempts no connection, navigation
\* or page query, and exits non-zero.
C8_NoEndpointTearsDown ==
    (session.created /\ MissingCdpUrl(session.cdpWsUrl) /\ pc = "exited") =>
        /\ err.thrown
        /\ exitCode # 0
        /\ ~IssuedOp("puppeteer.connect")
        /\ ~IssuedOp("page.goto")
        /\ ~IssuedOp("windows.promptContent")
        /\ Issued("sessions.terminate", session.id)

\* A teardown step failed: the last call issued was the window close or the
\* session termination, and it threw.
TeardownFailed ==
    /\ err.thrown
    /\ calls # <<>>
    /\ calls[Len(calls)].op \in {"browser.close", "sessions.terminate"}

\* C9: a failure of a teardown step does not change the exit status: a run
\* whose extraction result was printed exits 0 also when teardown failed.
C9_TeardownFailureKeepsStatus ==
    (pc = "exited" /\ TeardownFailed /\ formattedJson.printed) =>
        exitCode = 0

\* C10: once sessions.terminate has been called no further call is issued
\* on the session or its window, and the run is at its exit.
C10_NoUseAfterTerminate ==
    \A i \in 1..Len(calls) :
        calls[i].op = "sessions.terminate" =>
            /\ i = Len(calls)
            /\ pc \in {"exited", "catch", "rejected"}

\* The session was terminated and the process has exited.
C10_Witness ==
    /\ IssuedOp("sessions.terminate")
    /\ IssuedOp("browser.close")
    /\ pc = "exited"

\* Every stage ran to its end: the session has a control endpoint, the login
\* check was answered and parsed without error, the extraction answer was
\* obtained, parsed and printed, and the window close and the session
\* termination were called.
AllStagesCompleted ==
    /\ session.created
    /\ ~MissingCdpUrl(session.cdpWsUrl)
    /\ Issued("puppeteer.connect", session.cdpWsUrl)
    /\ isLoggedInPromptResponse.received
    /\ JSONParse(isLoggedInPromptResponse.modelResponse).ok
    /\ ~ReportsError(isLoggedInPromptResponse)
    /\ promptContentResponse.received
    /\ JSONParse(promptContentResponse.modelResponse).ok
    /\ formattedJson.printed
    /\ IssuedOp("browser.close")
    /\ Issued("sessions.terminate", session.id)

ExtractedValue == JSONParse(promptContentResponse.modelResponse).v
ReportedValue == JSONParse(formattedJson.text).v
ReportedEntries ==
    IF GetProp(ReportedValue, "companies").t = "arr"
    THEN GetProp(ReportedValue, "companies").c
    ELSE <<>>

HasRequiredFields(entry) ==
    /\ \A name \in {"companyName", "jobTitle", "location", "salary"} :
         HasProp(entry, name)
    /\ HasProp(GetProp(entry, "salary"), "min")
    /\ HasProp(GetProp(entry, "salary"), "max")

SalaryOrdered(entry) ==
    GetProp(GetProp(entry, "salary"), "min").n
        <= GetProp(GetProp(entry, "salary"), "max").n

\* The extraction answer is well formed, matches the declared schema and
\* has no error field, and it was printed as the result.
ReportedSchemaResult ==
    /\ formattedJson.printed
    /\ JSONParse(promptContentResponse.modelResponse).ok
    /\ MatchesExtractSchema(ExtractedValue)
    /\ ~HasProp(ExtractedValue, "error")

\* C12 as stated: a well-formed answer that matches the declared schema and
\* has no error field is reported unchanged, and every entry of the result
\* has the four required fields and salary.min <= salary.max.
C12_ReportedEntriesOrdered ==
    ReportedSchemaResult =>
        /\ ReportedValue = ExtractedValue
        /\ \A i \in 1..Len(ReportedEntries) :
             /\ HasRequiredFields(ReportedEntries[i])
             /\ SalaryOrdered(ReportedEntries[i])

\* C12 as amended: a well-formed answer that matches the declared schema and
\* has no error field is reported unchanged, and every entry of the result
\* has the four required fields; salary.min <= salary.max holds of an entry
\* of the result exactly when it holds of that entry of the answer.
C12_ReportedUnchanged ==
    ReportedSchemaResult =>
        /\ JSONParse(formattedJson.text).ok
        /\ ReportedValue = ExtractedValue
        /\ Len(ReportedEntries) = Len(GetProp(ExtractedValue, "companies").c)
        /\ \A i \in 1..Len(ReportedEntries) :
             /\ HasRequiredFields(ReportedEntries[i])
             /\ SalaryOrdered(ReportedEntries[i])
                  <=> SalaryOrdered(GetProp(ExtractedValue, "companies").c[i])

\* A result with an entry was printed for an answer that matches the schema.
C12_Witness ==
    /\ ReportedSchemaResult
    /\ Len(ReportedEntries) = 1
    /\ SalaryOrdered(ReportedEntries[1])
    /\ pc = "exited"

\* C13: whenever the session is terminated, the browser close was called
\* right before it and had returned without error: the run stands at the
\* termination only with the close as its last call and nothing thrown, and
\* a failed close is never followed by the termination.
C13_CloseBeforeTerminate ==
    /\ \A i \in 1..Len(calls) :
         calls[i].op = "sessions.terminate" =>
            /\ i > 1
            /\ calls[i - 1].op = "browser.close"
    /\ pc = "terminate" =>
         /\ ~err.thrown
         /\ calls[Len(calls)].op = "browser.close"
    /\ (err.thrown /\ calls[Len(calls)].op = "browser.close") =>
         ~IssuedOp("sessions.terminate")
    /\ CountOp("browser.close") <= 1
    /\ CountOp("sessions.terminate") <= 1

\* The session was terminated after the browser was closed.
C13_Witness ==
    /\ Len(calls) >= 2
    /\ calls[Len(calls)].op = "sessions.terminate"
    /\ calls[Len(calls) - 1].op = "browser.close"

CountCall(op, arg) ==
    Cardinality({i \in 1..Len(calls) : calls[i] = Call(op, arg)})

\* C14: no call is issued twice in a run: at most one session creation, one
\* login-check query and one extraction query; no call is issued once a
\* step has thrown; and the login-check query is not issued once the wait
\* for the operator has been released.
C14_NoRetry ==
    /\ [](/\ CountOp("sessions.create") <= 1
          /\ CountCall("windows.promptContent", IS_LOGGED_IN_PROMPT) <= 1
          /\ CountCall("windows.promptContent", EXTRACT_DATA_PROMPT) <= 1
          /\ \A i, j \in 1..Len(calls) : calls[i] = calls[j] => i = j)
    /\ [][err.thrown => calls' = calls]_vars
    /\ [][handoff' = "released" =>
            CountCall("windows.promptContent", IS_LOGGED_IN_PROMPT)'
                = CountCall("windows.promptContent", IS_LOGGED_IN_PROMPT)]_vars

\* The extraction query was issued after the operator released the wait,
\* with one login-check query in the whole run.
C14_Witness ==
    /\ handoff = "released"
    /\ CountCall("windows.promptContent", IS_LOGGED_IN_PROMPT) = 1
    /\ CountCall("windows.promptContent", EXTRACT_DATA_PROMPT) = 1
    /\ pc = "exited"

\* C15: once a step has thrown, no later stage starts (no call is issued,
\* the wait for the operator is not entered, no result is printed); the
\* error is printed, with status code, message and body for an AirtopError;
\* and the process exits, with status 1, only after that.
C15_FailureAbortsThenReports ==
    /\ [](err.thrown => pc \in {"catch", "rejected", "exited"})
    /\ [][err.thrown =>
            /\ calls' = calls
            /\ handoff' = handoff
            /\ formattedJson' = formattedJson
            /\ stdout' = stdout]_vars
    /\ []((err.thrown /\ pc = "catch") =>
            (stderr = <<>> /\ exitCode = NotExited))
    /\ []((err.thrown /\ pc \in {"rejected", "exited"}) =>
            /\ stderr = Diagnostics(err)
            /\ Len(stderr) = IF err.name = "AirtopError" THEN 3 ELSE 1
            /\ err.message \in {stderr[i] : i \in 1..Len(stderr)})
    /\ []((err.thrown /\ pc = "exited") => exitCode = 1)
    /\ [][(err.thrown /\ exitCode' # NotExited) => stderr # <<>>]_vars

\* A run in which a call failed with an AirtopError has printed the three
\* diagnostic lines and exited with status 1.
C15_Witness ==
    /\ pc = "exited"
    /\ exitCode = 1
    /\ err.name = "AirtopError"
    /\ Len(stderr) = 3

\* The page the window was last navigated to before call i; Undefined when
\* no navigation came before it.
PageAt(i) ==
    LET gotos == {j \in 1..(i - 1) : calls[j].op = "page.goto"} IN
    IF gotos = {} THEN Undefined
    ELSE calls[CHOOSE j \in gotos : \A k \in gotos : k <= j].arg

\* The URL a page query is about.
PageOf(prompt) == IF prompt = IS_LOGGED_IN_PROMPT THEN LOGIN_URL ELSE TARGET_URL

\* C16: a page query is issued only after the navigation to its page has
\* returned without error, and the last navigation before the query went to
\* that page: the login URL for the login check, the listing URL for the
\* extraction query.
C16_QueryAfterItsNavigation ==
    /\ \A i \in 1..Len(calls) :
         calls[i].op = "windows.promptContent" =>
            PageAt(i) = PageOf(calls[i].arg)
    /\ pc \in {"windowInfo", "loginCheck"} =>
         (~err.thrown /\ PageAt(Len(calls) + 1) = LOGIN_URL)
    /\ pc = "extract" =>
         (~err.thrown /\ calls[Len(calls)] = Call("page.goto", TARGET_URL))
    /\ (err.thrown /\ calls[Len(calls)].op = "page.goto") =>
         \A i \in 1..Len(calls) :
            calls[i].op = "windows.promptContent" =>
               PageOf(calls[i].arg) # calls[Len(calls)].arg

\* Both page queries were issued, each after the navigation to its page.
C16_Witness ==
    /\ Issued("windows.promptContent", IS_LOGGED_IN_PROMPT)
    /\ Issued("windows.promptContent", EXTRACT_DATA_PROMPT)
    /\ CountOp("page.goto") = 2

\* The chunk is empty after trimming: it holds white space only.
WhiteSpaceOnly(input) == \A i \in 1..Len(input) : IsWhiteSpace(input[i])

\* C17: at the profile prompt every white-space-only input resolves to no
\* profile id and every other input to a profile id; and a session created
\* without a profile id is requested with no baseProfileId and with
\* persistProfile = true.
C17_NoProfilePersists ==
    /\ pc = "profilePrompt" =>
         \A input \in StdinChunks :
            WhiteSpaceOnly(input) <=> ResolveProfileId(input) = Undefined
    /\ (createRequest.sent /\ profileId = Undefined) =>
         /\ createRequest.baseProfileId = Undefined
         /\ createRequest.persistProfile = TRUE
    /\ \A i \in 1..Len(stdout) :
         stdout[i] = "No profileId provided" =>
            (pc # "profilePrompt" /\ profileId = Undefined)

\* A session was requested after the operator supplied no profile id.
C17_Witness ==
    /\ createRequest.sent
    /\ profileId = Undefined
    /\ \E i \in 1..Len(stdout) : stdout[i] = "No profileId provided"

\* The login check answered a JSON object without an error field.
LoginObjectNoError ==
    /\ isLoggedInPromptResponse.received
    /\ JSONParse(isLoggedInPromptResponse.modelResponse).ok
    /\ JSONParse(isLoggedInPromptResponse.modelResponse).v.t = "obj"
    /\ FieldOf(isLoggedInPromptResponse, "error") = JUndef

\* The run treats the user as logged out: it has entered the wait for the
\* operator, and the extraction stage has started only if the wait was
\* released.
HandledAsLoggedOut ==
    /\ handoff \in {"waiting", "released"}
    /\ ExtractionStarted => handoff = "released"

\* C18 as stated: an answer without an error field whose isLoggedIn is
\* anything but true is handled as logged out.
C18_NotTrueIsLoggedOut ==
    (/\ LoginObjectNoError
     /\ FieldOf(isLoggedInPromptResponse, "isLoggedIn") # JBool(TRUE)) =>
        HandledAsLoggedOut

\* C18 as amended: an answer without an error field whose isLoggedIn is
\* absent, null, false, 0 or "" (not truthy) is handled as logged out; an
\* answer whose isLoggedIn is truthy, true or not, never enters the wait.
C18_FalsyIsLoggedOut ==
    /\ (/\ LoginObjectNoError
        /\ ~Truthy(FieldOf(isLoggedInPromptResponse, "isLoggedIn"))) =>
           HandledAsLoggedOut
    /\ (/\ LoginObjectNoError
        /\ Truthy(FieldOf(isLoggedInPromptResponse, "isLoggedIn"))) =>
           handoff = "none"

\* The login check answered an object without isLoggedIn and without error,
\* and the run waits for the operator.
C18_Witness ==
    /\ LoginObjectNoError
    /\ FieldOf(isLoggedInPromptResponse, "isLoggedIn") = JUndef
    /\ handoff = "waiting"
    /\ pc = "awaitLogin"

\* C19: when every call returns or fails and the operator answers, every
\* run exits; and a run that waits for the operator leaves the wait by the
\* operator's input only: the one step it can take issues no call, throws
\* nothing, does not exit, and releases the wait.
C19_ExitsAndWaitsForSignal ==
    /\ <>(pc = "exited" /\ exitCode \in {0, 1})
    /\ [](pc = "exited" => exitCode \in {0, 1})
    /\ [][pc = "awaitLogin" =>
            /\ handoff = "waiting" /\ handoff' = "released"
            /\ pc' = "gotoTarget"
            /\ calls' = calls
            /\ err' = err
            /\ exitCode' = exitCode]_vars
    /\ [](pc = "awaitLogin" => (ENABLED AwaitLogin /\ ~ENABLED RunSteps))

\* A run that waited for the operator, was released and has exited.
C19_Witness ==
    /\ pc = "exited"
    /\ handoff = "released"

====
